---- MODULE Spec2Model ----
(***************************************************************************)
(* Model of src/backend/app.js: the record loader readDataWithClasscodes,  *)
(* the template filler fillDataToTemplate, the sheet cloner                *)
(* createCopiesFromTemplateAll, the sheet copier copyFormSheetToFile and   *)
(* the CLI drivers.                                                        *)
(* The file holds two programs one after the other: lines 1-409 (loader,   *)
(* filler, cloner, copier, cloner driver) and lines 410-495 (loader,       *)
(* filler writing cells directly, filler driver).  Line 410 declares       *)
(* const path a second time, so the file as it stands does not load: node  *)
(* reports a SyntaxError and exits with status 1 before any line runs.     *)
(* The model has that run (prog "file") beside the runs of each program    *)
(* loaded on its own, which is where the functions can be observed.        *)
(* The spreadsheet library (exceljs) is modelled at its call sites by the  *)
(* part of its behaviour the program relies on: worksheets by id and name, *)
(* cells addressed by (column, row), merged ranges with a top-left master, *)
(* and the Cell value accessors that resolve a merged cell to its master.  *)
(***************************************************************************)
EXTENDS Integers, Sequences, FiniteSets, TLC

(***************************************************************************)
(* Bounds of the exploration.                                              *)
(***************************************************************************)
\* longest array of one repeated record given to the loader and the drivers
MaxLen == 102
\* longest array whose elements are chosen freely from ItemPool
MaxItems == 2
\* most worksheets named STT-0, STT-1, ... already present in the template
MaxPre == 2

(***************************************************************************)
(* Program constants.                                                      *)
(***************************************************************************)
\* 18 + Math.floor(idx / 20): base offset and block size
ClassBase == 18
BlockSize == 20
\* data.slice(100,119) of the createCopiesFromTemplateAll driver
SliceFrom == 100
SliceTo == 119

(***************************************************************************)
(* JavaScript values: undefined, null, strings and numbers.                *)
(***************************************************************************)
Undefined == [k |-> "undefined", s |-> "", n |-> 0]
Null == [k |-> "null", s |-> "", n |-> 0]
Str(x) == [k |-> "string", s |-> x, n |-> 0]
Num(x) == [k |-> "number", s |-> "", n |-> x]

\* a ?? b
Coalesce(a, b) == IF a.k \in {"undefined", "null"} THEN b ELSE a

Fields == {"name", "year", "name2", "school", "address", "address2", "classcode"}

\* an element of the parsed JSON array: an object with some of Fields, or null
Obj(nm, yr, n2, sc, ad, a2, cc) ==
    [kind |-> "object",
     f |-> [x \in Fields |->
              CASE x = "name" -> nm
                [] x = "year" -> yr
                [] x = "name2" -> n2
                [] x = "school" -> sc
                [] x = "address" -> ad
                [] x = "address2" -> a2
                [] OTHER -> cc]]
EmptyObj == Obj(Undefined, Undefined, Undefined, Undefined, Undefined, Undefined, Undefined)
NullItem == [kind |-> "null", f |-> EmptyObj.f]

ItemA == Obj(Str("A"), Num(2005), Str("N"), Str("S"), Str("D1"), Str("D2"), Undefined)
ItemB == Obj(Str("B"), Null, Str("M"), Undefined, Null, Str("E2"), Num(99))
ItemPool == {ItemA, ItemB, NullItem}

Min(a, b) == IF a < b THEN a ELSE b

RECURSIVE SeqsUpTo(_, _)
SeqsUpTo(S, n) ==
    IF n = 0 THEN {<<>>}
    ELSE LET shorter == SeqsUpTo(S, n - 1)
         IN shorter \cup {Append(q, x) : q \in {p \in shorter : Len(p) = n - 1}, x \in S}

\* the arrays the model feeds to the loader, the cloner and the drivers
FreeArrays == SeqsUpTo(ItemPool, MaxItems)
LongArrays == {[j \in 1..L |-> ItemA] : L \in 0..MaxLen}

(***************************************************************************)
(* readDataWithClasscodes                                                  *)
(***************************************************************************)
ClassCodeShifted(idx) == ClassBase + ((idx + 1) \div BlockSize)
\* const classcode = 18 + Math.floor(idx / 20), idx the 0-based array index
ClassCode(idx) == ClassBase + (idx \div BlockSize)

SpreadDroppingField(item, classcode) ==
    [kind |-> "object",
     f |-> [x \in Fields |->
              IF x = "classcode" THEN Num(classcode)
              ELSE IF x = "name2" THEN Undefined ELSE item.f[x]]]
\* { ...item, classcode }: a new object with item's own fields, then classcode
\* set (a classcode of item is overwritten; spreading null gives no fields)
Spread(item, classcode) ==
    [kind |-> "object",
     f |-> [x \in Fields |-> IF x = "classcode" THEN Num(classcode) ELSE item.f[x]]]

\* arr.map((item, idx) => ({ ...item, classcode }))
MapClasscodes(arr) == [j \in 1..Len(arr) |-> Spread(arr[j], ClassCode(j - 1))]

\* The data file: present or not, and what JSON.parse makes of its text:
\* "invalid" (JSON.parse throws), "object" (any value that is not an array),
\* "array" (arr holds the elements).
DataFile(exists, kind, arr) == [exists |-> exists, kind |-> kind, arr |-> arr]

ReadDataNoExistsCheck(file) ==
    IF ~file.exists THEN [err |-> "ENOENT", value |-> <<>>]
    ELSE IF file.kind = "invalid" THEN [err |-> "SyntaxError", value |-> <<>>]
    ELSE IF file.kind # "array" THEN [err |-> "ShapeError", value |-> <<>>]
    ELSE [err |-> "none", value |-> MapClasscodes(file.arr)]
\* readDataWithClasscodes: the error raised ("none" when it returns) and the
\* returned array
ReadData(file) ==
    IF ~file.exists THEN [err |-> "NotFound", value |-> <<>>]
    ELSE IF file.kind = "invalid" THEN [err |-> "SyntaxError", value |-> <<>>]
    ELSE IF file.kind # "array" THEN [err |-> "ShapeError", value |-> <<>>]
    ELSE [err |-> "none", value |-> MapClasscodes(file.arr)]

(***************************************************************************)
(* Worksheets of the spreadsheet library, as the program uses them.        *)
(* A cell address is <<column, row>> (C6 is <<3, 6>>); a merged range is   *)
(* its rectangle; a worksheet keeps the stored value of every cell and the *)
(* ranges merged on it, in the order they were merged.                     *)
(***************************************************************************)
Cols == 2..6
Rows == 1..10
Addrs == Cols \X Rows

Range(top, left, bottom, right) ==
    [colon |-> TRUE, top |-> top, left |-> left, bottom |-> bottom, right |-> right]
InRange(a, r) == r.left <= a[1] /\ a[1] <= r.right /\ r.top <= a[2] /\ a[2] <= r.bottom
RangeCells(r) == {a \in Addrs : InRange(a, r)}
RangeMaster(r) == <<r.left, r.top>>
\* Range.intersects of the library
Intersects(r1, r2) ==
    ~(r2.bottom < r1.top \/ r2.top > r1.bottom \/ r2.right < r1.left \/ r2.left > r1.right)

SeqRange(q) == {q[j] : j \in 1..Len(q)}

EmptyCells == [a \in Addrs |-> Null]
NoSheet == [name |-> "", origin |-> "none", cells |-> EmptyCells, merges |-> <<>>]
BlankSheet(name, origin) == [name |-> name, origin |-> origin, cells |-> EmptyCells, merges |-> <<>>]

\* cell.master: the top-left cell of the merged range holding the address, the
\* cell itself when it is not merged
MasterOf(sheet, a) ==
    IF \E j \in 1..Len(sheet.merges) : InRange(a, sheet.merges[j])
    THEN RangeMaster(sheet.merges[CHOOSE j \in 1..Len(sheet.merges) : InRange(a, sheet.merges[j])])
    ELSE a
\* cell.value: a merged cell reads its master's value
CellValue(sheet, a) == sheet.cells[MasterOf(sheet, a)]
\* the address whose stored value an assignment to sheet.getCell(a).value
\* replaces: the library's setter hands a merged cell's value to its master
Landing(sheet, a) == MasterOf(sheet, a)
\* sheet.getCell(a).value = v
CellSetValue(sheet, a, v) == [sheet EXCEPT !.cells[Landing(sheet, a)] = v]

\* sheet.mergeCells(range): throws ("Cannot merge already merged cells") when
\* the range meets a merged range of the sheet; otherwise every cell of the
\* range but the master becomes a merge cell (its own value is released) and
\* the range is recorded.
MergeThrows(sheet, r) == \E m \in SeqRange(sheet.merges) : Intersects(m, r)
MergeCells(sheet, r) ==
    [sheet EXCEPT !.merges = Append(@, r),
                  !.cells = [a \in Addrs |->
                               IF InRange(a, r) /\ a # RangeMaster(r) THEN Null ELSE @[a]]]

\* try { sheet.mergeCells(range) } catch (e) { /* ignore */ }
TryMerge(sheet, r) == IF MergeThrows(sheet, r) THEN sheet ELSE MergeCells(sheet, r)

MergeGuardInverted(r) == ~r.colon
\* typeof range === 'string' && range.includes(':')
MergeGuard(r) == r.colon

\* for (const range of mergeRanges) { if (guard) try { mergeCells } catch {} }
RECURSIVE ApplyMerges(_, _, _)
ApplyMerges(sheet, ranges, j) ==
    IF j > Len(ranges) THEN sheet
    ELSE ApplyMerges(IF MergeGuard(ranges[j]) THEN TryMerge(sheet, ranges[j]) ELSE sheet,
                     ranges, j + 1)

\* getMergeRanges(sheet): Array.from(sheet.model.merges)
GetMergeRanges(sheet) == sheet.merges

\* the string of an array index ("0", "1", ...): it holds no colon, and that
\* is all the program asks of it
IndexKey(j) == [colon |-> FALSE, top |-> j, left |-> j, bottom |-> j, right |-> j]
\* Object.keys(sheet.model.merges): the keys of an array are its indices
ObjectKeys(q) == [j \in 1..Len(q) |-> IndexKey(j - 1)]

(***************************************************************************)
(* Workbooks: worksheets by id (1, 2, ...); a removed worksheet leaves a   *)
(* hole that the next added worksheet fills.                               *)
(***************************************************************************)
Present(wb, id) == id \in 1..Len(wb) /\ wb[id].origin # "none"
\* workbook.getWorksheet(name): the id of the first worksheet of that name, 0
\* when there is none
GetWorksheet(wb, name) ==
    IF \E id \in 1..Len(wb) : Present(wb, id) /\ wb[id].name = name
    THEN CHOOSE id \in 1..Len(wb) :
           /\ Present(wb, id) /\ wb[id].name = name
           /\ \A k \in 1..(id - 1) : ~(Present(wb, k) /\ wb[k].name = name)
    ELSE 0
\* workbook.removeWorksheet(id)
RemoveWorksheet(wb, id) == [wb EXCEPT ![id] = NoSheet]
\* workbook.nextId
NextId(wb) ==
    IF \E id \in 1..Len(wb) : ~Present(wb, id)
    THEN CHOOSE id \in 1..Len(wb) : ~Present(wb, id) /\ \A k \in 1..(id - 1) : Present(wb, k)
    ELSE Len(wb) + 1
\* workbook.addWorksheet(name, options) throws when the name is taken
AddThrows(wb, name) == GetWorksheet(wb, name) # 0
AddWorksheet(wb, name, origin) ==
    IF NextId(wb) = Len(wb) + 1 THEN Append(wb, BlankSheet(name, origin))
    ELSE [wb EXCEPT ![NextId(wb)] = BlankSheet(name, origin)]

(***************************************************************************)
(* Writing cell values.  A plan is the sequence of (address, value)        *)
(* assignments of one fill; every assignment is logged with the address it *)
(* was asked for and the address whose stored value it replaced.           *)
(***************************************************************************)
C1addr == <<3, 1>>
C2addr == <<3, 2>>
C3addr == <<3, 3>>
C4addr == <<3, 4>>
C5addr == <<3, 5>>
C6addr == <<3, 6>>
C7addr == <<3, 7>>
C8addr == <<3, 8>>
C9addr == <<3, 9>>
C10addr == <<3, 10>>
F6addr == <<6, 6>>

\* the constant label written to F6 of every clone ("Mã lớp: 18", spelt here
\* without its diacritics)
ClassLabel == Str("Ma lop: 18")

WriteEntry(kind, id, req, at) == [kind |-> kind, id |-> id, req |-> req, at |-> at]

\* setCellValueKeepingMerge(sheet, address, value): cell = sheet.getCell(address);
\* target = cell.master || cell; target.value = value
SetCellValueKeepingMerge(st, id, a, v) ==
    LET target == MasterOf(st.sheet, a)
    IN [sheet |-> CellSetValue(st.sheet, target, v),
        log |-> st.log \cup {WriteEntry("set", id, a, Landing(st.sheet, target))}]
\* sheet.getCell(address).value = value (the second variant of fillDataToTemplate)
SetCellValueDirect(st, id, a, v) ==
    [sheet |-> CellSetValue(st.sheet, a, v),
     log |-> st.log \cup {WriteEntry("set", id, a, Landing(st.sheet, a))}]

RECURSIVE RunPlan(_, _, _, _, _)
RunPlan(st, id, plan, direct, j) ==
    IF j > Len(plan) THEN st
    ELSE RunPlan(IF direct THEN SetCellValueDirect(st, id, plan[j][1], plan[j][2])
                 ELSE SetCellValueKeepingMerge(st, id, plan[j][1], plan[j][2]),
                 id, plan, direct, j + 1)

\* dataArray[i] || {}
ItemOrEmpty(x) == IF x.kind = "null" THEN EmptyObj ELSE x

ClonePlanNameFirst(item) ==
    << <<C6addr, Coalesce(item.f["name"], Str(""))>>,
       <<C7addr, Coalesce(item.f["name2"], Coalesce(item.f["year"], Str("")))>>,
       <<C8addr, Coalesce(item.f["school"], Str(""))>>,
       <<C9addr, Coalesce(item.f["address"], Str(""))>>,
       <<C10addr, Coalesce(item.f["address2"], Str(""))>>,
       <<F6addr, ClassLabel>> >>
\* the six assignments of createCopiesFromTemplateAll, in program order
ClonePlan(item) ==
    << <<C6addr, Coalesce(item.f["name"], Str(""))>>,
       <<C7addr, Coalesce(item.f["year"], Coalesce(item.f["name2"], Str("")))>>,
       <<C8addr, Coalesce(item.f["school"], Str(""))>>,
       <<C9addr, Coalesce(item.f["address"], Str(""))>>,
       <<C10addr, Coalesce(item.f["address2"], Str(""))>>,
       <<F6addr, ClassLabel>> >>

FillPlanShifted(entry) ==
    << <<C1addr, Coalesce(entry.f["classcode"], Str(""))>>,
       <<C2addr, Coalesce(entry.f["name"], Str(""))>>,
       <<C3addr, Coalesce(entry.f["year"], Str(""))>>,
       <<C4addr, Coalesce(entry.f["school"], Str(""))>>,
       <<C5addr, Coalesce(entry.f["address"], Str(""))>>,
       <<C6addr, Coalesce(entry.f["address2"], Str(""))>> >>
\* the six assignments of fillDataToTemplate, in program order
FillPlan(entry) ==
    << <<C1addr, Coalesce(entry.f["name"], Str(""))>>,
       <<C2addr, Coalesce(entry.f["year"], Str(""))>>,
       <<C3addr, Coalesce(entry.f["school"], Str(""))>>,
       <<C4addr, Coalesce(entry.f["address"], Str(""))>>,
       <<C5addr, Coalesce(entry.f["address2"], Str(""))>>,
       <<C6addr, Coalesce(entry.f["classcode"], Str(""))>> >>

(***************************************************************************)
(* Copying the source sheet's cells into a clone.                          *)
(***************************************************************************)
\* the place of a cell in the order of eachRow / eachCell: row by row, left
\* to right
VisitOrder(a) == (a[2] - 1) * Cardinality(Cols) + (a[1] - 2)

CopyFilterAll(form, a) == TRUE
\* sourceMaster = cell.master || cell; copied when sourceMaster.address === cell.address
CopyFilter(form, a) == MasterOf(form, a) = a

\* formSheet.eachRow(... row.eachCell(... targetCell = newSheet.getCell(cell.address);
\* targetCell.value = cell.value ...)): every source cell that passes the
\* filter is assigned, in visiting order, to the cell of the same address.
\* The new sheet's merges do not change meanwhile, so the stored value of a
\* cell ends as the value of the last assignment that landed on it.
CopyCellsFrom(form, st, id) ==
    LET copied == [a \in Addrs |-> CopyFilter(form, a)]
        landing == [a \in Addrs |-> Landing(st.sheet, a)]
        \* the copied cells whose assignment lands on d: d itself, or cells of
        \* the merged range d is the master of
        group(d) == IF \E j \in 1..Len(st.sheet.merges) : InRange(d, st.sheet.merges[j])
                    THEN RangeCells(st.sheet.merges[CHOOSE j \in 1..Len(st.sheet.merges) :
                                                      InRange(d, st.sheet.merges[j])])
                    ELSE {d}
        onto(d) == IF landing[d] # d THEN {} ELSE {a \in group(d) : copied[a]}
        last(S) == CHOOSE a \in S : \A b \in S : VisitOrder(b) <= VisitOrder(a)
    IN [sheet |-> [st.sheet EXCEPT !.cells =
                     [d \in Addrs |-> IF onto(d) = {} THEN @[d]
                                      ELSE CellValue(form, last(onto(d)))]],
        log |-> st.log \cup {WriteEntry("copy", id, a, landing[a]) : a \in {x \in Addrs : copied[x]}}]

SheetNameOffByOne(idx) == "STT-" \o ToString(idx + 1)
\* "STT-" + String(i)
SheetName(idx) == "STT-" \o ToString(idx)

\* arr.slice(from, to) on a 1-based sequence
Slice(arr, from, to) == SubSeq(arr, from + 1, Min(to, Len(arr)))

LoopDoneAlways(idx, n) == TRUE
\* the for loop ends when !(i < dataArray.length)
LoopDone(idx, n) == ~(idx < n)

NoRecordsNever(d) == FALSE
\* !Array.isArray(data) || data.length === 0
NoRecords(d) == Len(d) = 0

(***************************************************************************)
(* The files the program reads.                                            *)
(***************************************************************************)
\* merged ranges a "form" sheet may carry: B6:C6, C6:C7, C8:D8, E6:F6, C6:F6
FormCatalog ==
    << Range(6, 2, 6, 3), Range(6, 3, 7, 3), Range(8, 3, 8, 4),
       Range(6, 5, 6, 6), Range(6, 3, 6, 6) >>
\* merged ranges a "data" sheet may carry: B1:C1, C1:C2, C3:D3, C5:C6
DataCatalog ==
    << Range(1, 2, 1, 3), Range(1, 3, 2, 3), Range(3, 3, 3, 4), Range(5, 3, 6, 3) >>

RECURSIVE PickFrom(_, _, _)
PickFrom(catalog, S, j) ==
    IF j > Len(catalog) THEN <<>>
    ELSE (IF j \in S THEN <<catalog[j]>> ELSE <<>>) \o PickFrom(catalog, S, j + 1)

\* the merge lists a loaded worksheet can have: ranges that do not overlap
MergeLists(catalog) ==
    {PickFrom(catalog, S, 1) :
       S \in {T \in SUBSET (1..Len(catalog)) :
                \A x, y \in T : x # y => ~Intersects(catalog[x], catalog[y])}}

\* a template sheet: every cell that is not a merged member holds a value
TemplateSheet(name, merges) ==
    LET bare == [name |-> name, origin |-> "template", cells |-> EmptyCells, merges |-> merges]
    IN [bare EXCEPT !.cells = [a \in Addrs |-> IF MasterOf(bare, a) = a THEN Str("tpl") ELSE Null]]
OldSheet(name) ==
    [name |-> name, origin |-> "template", cells |-> [a \in Addrs |-> Str("old")], merges |-> <<>>]

\* a template workbook: its main sheet, then pre sheets named STT-0 .. STT-(pre-1)
TemplateBook(name, merges, pre) ==
    <<TemplateSheet(name, merges)>> \o [j \in 1..pre |-> OldSheet("STT-" \o ToString(j - 1))]

MissingTemplate == [exists |-> FALSE, book |-> <<>>]
FormTemplates ==
    {MissingTemplate, [exists |-> TRUE, book |-> TemplateBook("other", <<>>, 0)]}
    \cup {[exists |-> TRUE, book |-> TemplateBook("form", m, pre)] :
            m \in MergeLists(FormCatalog), pre \in 0..MaxPre}
DataTemplates ==
    {MissingTemplate, [exists |-> TRUE, book |-> TemplateBook("other", <<>>, 0)]}
    \cup {[exists |-> TRUE, book |-> TemplateBook("data", m, 0)] : m \in MergeLists(DataCatalog)}

MissingData == DataFile(FALSE, "invalid", <<>>)
UnusableData == {MissingData, DataFile(TRUE, "invalid", <<>>), DataFile(TRUE, "object", <<>>)}
\* the data files given to a direct call of readDataWithClasscodes
DataFiles == UnusableData \cup {DataFile(TRUE, "array", arr) : arr \in FreeArrays \cup LongArrays}
\* the data files given to the drivers: unusable, empty, one record, and
\* arrays around the bounds of the driver's slice
DriverLens == {0, SliceFrom, SliceFrom + 1, MaxLen}
DriverData ==
    UnusableData
    \cup {DataFile(TRUE, "array", arr) :
            arr \in {<<ItemB>>, <<NullItem>>} \cup {q \in LongArrays : Len(q) \in DriverLens}}

(***************************************************************************)
(* State.                                                                  *)
(***************************************************************************)
VARIABLES
    prog,          \* the entry point that runs
    newSheetName,  \* copyFormSheetToFile's newSheetName
    dataFile,      \* the JSON data file
    templateFile,  \* the template workbook file
    pc,            \* where the run is
    data,          \* what readDataWithClasscodes returned
    dataArray,     \* createCopiesFromTemplateAll's dataArray
    entry,         \* fillDataToTemplate's entry
    workbook,      \* the workbook in memory
    formId,        \* id of the source worksheet (formSheet / sheet)
    mergeRanges,   \* the merge ranges gathered from the source sheet
    i,             \* the loop index of createCopiesFromTemplateAll
    cur,           \* id of newSheet
    afterFirst,    \* newSheet's merges after the first application
    writeLog,      \* every value assignment made to a cell
    outDir,        \* whether the out directory exists
    outFile,       \* the output file: times written, and the workbook written
    err,           \* the error raised, "none" when none
    exitCode,      \* the process exit status, -1 while running
    saved          \* whether the driver printed "Saved:"

vars == <<prog, newSheetName, dataFile, templateFile, pc, data, dataArray, entry, workbook, formId,
          mergeRanges, i, cur, afterFirst, writeLog, outDir, outFile, err, exitCode, saved>>

\* the entry points.  Of the first program: api_read, api_copies, api_fill,
\* api_copyform (the exported functions) and cli_all (run as main); of the
\* second: api_fill2 and cli_fill; "file" is the file as it stands.
CliProgs == {"cli_all", "cli_fill"}
ClonerProgs == {"cli_all", "api_copies"}
CopierProgs == {"api_copyform"}
FillerProgs == {"cli_fill", "api_fill", "api_fill2"}

\* the name of the source worksheet: opts.formSheetName || 'form', or 'data'
SourceSheetName == IF prog \in ClonerProgs \cup CopierProgs THEN "form" ELSE "data"

\* the names handed to copyFormSheetToFile: a free one and two that a
\* template may hold
CopyNames == {"copy", "STT-0", "form"}

\* the entries handed to fillDataToTemplate directly
Entries == (ItemPool \ {NullItem}) \cup {Spread(x, ClassCode(0)) : x \in ItemPool}

Init ==
    /\ prog \in {"file", "api_read", "api_copies", "api_copyform", "api_fill", "api_fill2",
                 "cli_all", "cli_fill"}
    /\ newSheetName \in (IF prog \in CopierProgs THEN CopyNames ELSE {""})
    /\ dataFile \in (IF prog = "api_read" THEN DataFiles
                     ELSE IF prog \in CliProgs THEN DriverData
                     ELSE IF prog = "file" THEN {MissingData, DataFile(TRUE, "array", <<ItemA>>)}
                     ELSE {MissingData})
    /\ templateFile \in (IF prog \in ClonerProgs \cup CopierProgs THEN FormTemplates
                         ELSE IF prog \in FillerProgs THEN DataTemplates
                         ELSE IF prog = "file"
                         THEN {MissingTemplate,
                               [exists |-> TRUE, book |-> TemplateBook("form", <<>>, 0)]}
                         ELSE {MissingTemplate})
    /\ dataArray \in (IF prog = "api_copies" THEN FreeArrays ELSE {<<>>})
    /\ entry \in (IF prog \in {"api_fill", "api_fill2"} THEN Entries ELSE {EmptyObj})
    /\ pc = (IF prog = "file" THEN "parse"
             ELSE IF prog \in CliProgs \cup {"api_read"} THEN "start"
             ELSE "open")
    /\ data = <<>>
    /\ workbook = <<>>
    /\ formId = 0
    /\ mergeRanges = <<>>
    /\ i = 0
    /\ cur = 0
    /\ afterFirst = <<>>
    /\ writeLog = {}
    /\ outDir = FALSE
    /\ outFile = [count |-> 0, book |-> <<>>]
    /\ err = "none"
    /\ exitCode = -1
    /\ saved = FALSE

\* throw: the drivers catch it, print it and exit with status 1; a direct
\* call's promise rejects
Raise(kind) ==
    /\ err' = kind
    /\ IF prog \in CliProgs
       THEN pc' = "exited" /\ exitCode' = 1
       ELSE pc' = "raised" /\ exitCode' = exitCode

(***************************************************************************)
(* Actions.                                                                *)
(***************************************************************************)
\* node src/backend/app.js on the file as it stands: the second declaration
\* of const path (line 410) is a SyntaxError found when the file is compiled;
\* nothing runs, and node exits with status 1
LoadModule ==
    /\ pc = "parse"
    /\ prog = "file"
    /\ err' = "SyntaxError"
    /\ exitCode' = 1
    /\ pc' = "exited"
    /\ UNCHANGED <<prog, newSheetName, dataFile, templateFile, data, dataArray, entry,
                   workbook, formId, mergeRanges, i, cur, afterFirst, writeLog, outDir,
                   outFile, saved>>

\* readDataWithClasscodes(), called directly or as the drivers' first step
LoadData ==
    /\ pc = "start"
    /\ LET r == ReadData(dataFile)
       IN IF r.err # "none"
          THEN Raise(r.err) /\ data' = data
          ELSE /\ data' = r.value
               /\ pc' = (IF prog = "api_read" THEN "returned" ELSE "loaded")
               /\ UNCHANGED <<err, exitCode>>
    /\ UNCHANGED <<prog, newSheetName, dataFile, templateFile, dataArray, entry, workbook, formId,
                   mergeRanges, i, cur, afterFirst, writeLog, outDir, outFile, saved>>

\* the drivers between the load and the call of the writer: the empty check,
\* then data.slice(100,119) or data[0]
DriverSelect ==
    /\ pc = "loaded"
    /\ prog \in CliProgs
    /\ IF NoRecords(data)
       THEN /\ pc' = "exited"
            /\ exitCode' = 1
            /\ UNCHANGED <<dataArray, entry, err>>
       ELSE IF prog = "cli_all"
       THEN /\ dataArray' = Slice(data, SliceFrom, SliceTo)
            /\ pc' = "open"
            /\ UNCHANGED <<entry, err, exitCode>>
       ELSE IF Len(data) = 0
       THEN Raise("TypeError") /\ UNCHANGED <<dataArray, entry>>
       ELSE /\ entry' = data[1]
            /\ pc' = "open"
            /\ UNCHANGED <<dataArray, err, exitCode>>
    /\ UNCHANGED <<prog, newSheetName, dataFile, templateFile, data, workbook, formId, mergeRanges, i,
                   cur, afterFirst, writeLog, outDir, outFile, saved>>

\* the writers up to their first await: the template must exist, the out
\* directory is made, and the read of the template is started on an empty
\* workbook
OpenTemplate ==
    /\ pc = "open"
    /\ IF ~templateFile.exists
       THEN Raise("NotFound") /\ outDir' = outDir
       ELSE /\ outDir' = TRUE
            /\ pc' = "read"
            /\ UNCHANGED <<err, exitCode>>
    /\ UNCHANGED <<prog, newSheetName, dataFile, templateFile, data, dataArray, entry,
                   workbook, formId, mergeRanges, i, cur, afterFirst, writeLog, outFile,
                   saved>>

\* the writers when await workbook.xlsx.readFile(templatePath) resumes: the
\* workbook is loaded, the source worksheet is looked up and (cloner) its
\* merge ranges are gathered
ReadTemplate ==
    /\ pc = "read"
    /\ \E readable \in BOOLEAN :
         IF ~readable
         THEN Raise("IOError") /\ UNCHANGED <<workbook, formId, mergeRanges>>
         ELSE /\ workbook' = templateFile.book
              /\ LET id == GetWorksheet(templateFile.book, SourceSheetName)
                 IN IF id = 0
                    THEN Raise("MissingSheet") /\ UNCHANGED <<formId, mergeRanges>>
                    ELSE /\ formId' = id
                         /\ mergeRanges' = (IF prog \in ClonerProgs
                                            THEN GetMergeRanges(templateFile.book[id])
                                            ELSE <<>>)
                         /\ pc' = (IF prog \in ClonerProgs THEN "loop"
                                   ELSE IF prog \in CopierProgs THEN "addcopy"
                                   ELSE "fill")
                         /\ UNCHANGED <<err, exitCode>>
    /\ UNCHANGED <<prog, newSheetName, dataFile, templateFile, data, dataArray, entry, i,
                   cur, afterFirst, writeLog, outDir, outFile, saved>>

\* one iteration, first part: a sheet of the same name is removed, the new
\* sheet is added, and the source model is assigned to it inside try/catch.
\* The model setter assigns the source's name first: a library that refuses a
\* taken name throws there and leaves the new sheet blank (modelSet FALSE);
\* otherwise the sheet receives the source's stored cell values (modelSet
\* TRUE).  It receives no merged range either way: the setter takes them from
\* the model's mergeCells, which the getter does not give (it gives merges).
BeginClone ==
    /\ pc = "loop"
    /\ ~LoopDone(i, Len(dataArray))
    /\ LET sheetName == SheetName(i)
           existing == GetWorksheet(workbook, sheetName)
           wb1 == IF existing # 0 THEN RemoveWorksheet(workbook, existing) ELSE workbook
           id == NextId(wb1)
           wb2 == AddWorksheet(wb1, sheetName, "clone")
           form == workbook[formId]
       IN IF AddThrows(wb1, sheetName)
          THEN Raise("NameExists") /\ workbook' = wb1 /\ cur' = cur
          ELSE /\ cur' = id
               /\ \E modelSet \in BOOLEAN :
                    workbook' = IF modelSet
                                THEN [wb2 EXCEPT ![id].cells = form.cells]
                                ELSE wb2
               /\ pc' = "copy"
               /\ UNCHANGED <<err, exitCode>>
    /\ UNCHANGED <<prog, newSheetName, dataFile, templateFile, data, dataArray, entry, formId,
                   mergeRanges, i, afterFirst, writeLog, outDir, outFile, saved>>

\* second part: the source's master cells are copied
CopyCells ==
    /\ pc = "copy"
    /\ LET st == CopyCellsFrom(workbook[formId], [sheet |-> workbook[cur], log |-> writeLog],
                               cur)
       IN /\ workbook' = [workbook EXCEPT ![cur] = st.sheet]
          /\ writeLog' = st.log
    /\ pc' = "merge1"
    /\ UNCHANGED <<prog, newSheetName, dataFile, templateFile, data, dataArray, entry, formId,
                   mergeRanges, i, cur, afterFirst, outDir, outFile, err, exitCode, saved>>

\* third part: the merge ranges are applied
FirstMerge ==
    /\ pc = "merge1"
    /\ LET sheet == ApplyMerges(workbook[cur], mergeRanges, 1)
       IN /\ workbook' = [workbook EXCEPT ![cur] = sheet]
          /\ afterFirst' = sheet.merges
    /\ pc' = "fill"
    /\ UNCHANGED <<prog, newSheetName, dataFile, templateFile, data, dataArray, entry, formId,
                   mergeRanges, i, cur, writeLog, outDir, outFile, err, exitCode, saved>>

\* fourth part: C6..C10 and F6 are overwritten with the item's data
FillClone ==
    /\ pc = "fill"
    /\ prog \in ClonerProgs
    /\ LET item == ItemOrEmpty(dataArray[i + 1])
           st == RunPlan([sheet |-> workbook[cur], log |-> writeLog], cur,
                         ClonePlan(item), FALSE, 1)
       IN /\ workbook' = [workbook EXCEPT ![cur] = st.sheet]
          /\ writeLog' = st.log
    /\ pc' = "merge2"
    /\ UNCHANGED <<prog, newSheetName, dataFile, templateFile, data, dataArray, entry, formId,
                   mergeRanges, i, cur, afterFirst, outDir, outFile, err, exitCode, saved>>

\* fifth part: the merge ranges are applied once more; the loop goes on
SecondMerge ==
    /\ pc = "merge2"
    /\ workbook' = [workbook EXCEPT ![cur] = ApplyMerges(workbook[cur], mergeRanges, 1)]
    /\ i' = i + 1
    /\ pc' = "loop"
    /\ UNCHANGED <<prog, newSheetName, dataFile, templateFile, data, dataArray, entry, formId,
                   mergeRanges, cur, afterFirst, writeLog, outDir, outFile, err, exitCode,
                   saved>>

\* fillDataToTemplate: C1..C6 of the "data" sheet are set (through
\* setCellValueKeepingMerge in the first variant, directly in the second)
FillTemplate ==
    /\ pc = "fill"
    /\ prog \in FillerProgs
    /\ LET st == RunPlan([sheet |-> workbook[formId], log |-> writeLog], formId,
                         FillPlan(entry), prog # "api_fill", 1)
       IN /\ workbook' = [workbook EXCEPT ![formId] = st.sheet]
          /\ writeLog' = st.log
    /\ pc' = "filled"
    /\ UNCHANGED <<prog, newSheetName, dataFile, templateFile, data, dataArray, entry, formId,
                   mergeRanges, i, cur, afterFirst, outDir, outFile, err, exitCode, saved>>

\* copyFormSheetToFile between its two awaits: the new sheet is added under
\* the caller's name (refused when a worksheet has it), the merge ranges are
\* gathered as Object.keys of the array of ranges, the source's master cells
\* are copied, and the gathered ranges are applied twice
CopyFormSheet ==
    /\ pc = "addcopy"
    /\ prog \in CopierProgs
    /\ IF AddThrows(workbook, newSheetName)
       THEN Raise("NameExists") /\ UNCHANGED <<workbook, cur, mergeRanges, writeLog>>
       ELSE LET id == NextId(workbook)
                wb == AddWorksheet(workbook, newSheetName, "copy")
                keys == ObjectKeys(workbook[formId].merges)
                st == CopyCellsFrom(workbook[formId], [sheet |-> wb[id], log |-> writeLog], id)
                sheet == ApplyMerges(ApplyMerges(st.sheet, keys, 1), keys, 1)
            IN /\ workbook' = [wb EXCEPT ![id] = sheet]
               /\ cur' = id
               /\ mergeRanges' = keys
               /\ writeLog' = st.log
               /\ pc' = "copied"
               /\ UNCHANGED <<err, exitCode>>
    /\ UNCHANGED <<prog, newSheetName, dataFile, templateFile, data, dataArray, entry,
                   formId, i, afterFirst, outDir, outFile, saved>>

\* await workbook.xlsx.writeFile(outPath); return outPath
WriteWorkbook ==
    /\ \/ pc = "loop" /\ LoopDone(i, Len(dataArray))
       \/ pc = "filled"
       \/ pc = "copied"
    /\ \E writable \in BOOLEAN :
         IF writable
         THEN /\ outFile' = [count |-> outFile.count + 1, book |-> workbook]
              /\ pc' = "returned"
              /\ UNCHANGED <<err, exitCode>>
         ELSE Raise("IOError") /\ outFile' = outFile
    /\ UNCHANGED <<prog, newSheetName, dataFile, templateFile, data, dataArray, entry, workbook, formId,
                   mergeRanges, i, cur, afterFirst, writeLog, outDir, saved>>

\* console.log('Saved:', saved); the process then ends with status 0
DriverSaved ==
    /\ pc = "returned"
    /\ prog \in CliProgs
    /\ saved' = TRUE
    /\ exitCode' = 0
    /\ pc' = "exited"
    /\ UNCHANGED <<prog, newSheetName, dataFile, templateFile, data, dataArray, entry, workbook, formId,
                   mergeRanges, i, cur, afterFirst, writeLog, outDir, outFile, err>>

Next ==
    \/ LoadModule
    \/ LoadData
    \/ DriverSelect
    \/ OpenTemplate
    \/ ReadTemplate
    \/ BeginClone
    \/ CopyCells
    \/ FirstMerge
    \/ FillClone
    \/ SecondMerge
    \/ FillTemplate
    \/ CopyFormSheet
    \/ WriteWorkbook
    \/ DriverSaved

Spec == Init /\ [][Next]_vars

(***************************************************************************)
(* The written file, read again.                                           *)
(***************************************************************************)
\* a stored cell value after workbook.xlsx.writeFile and a later readFile: an
\* empty cell is not written and reads null; a string (the empty string too)
\* is written as a shared string and a number as a number, and both read back
\* as they were
PersistValue(v) ==
    CASE v.k = "string" -> Str(v.s)
      [] v.k = "number" -> Num(v.n)
      [] OTHER -> Null
\* the workbook a reader of the written file gets: the worksheets with their
\* merged ranges and persisted cell values
Reopen(book) ==
    [id \in 1..Len(book) |-> [book[id] EXCEPT !.cells = [a \in Addrs |-> PersistValue(@[a])]]]
\* the value read at an address of a named worksheet of the written file
ReadBack(book, name, a) ==
    LET reopened == Reopen(book)
    IN CellValue(reopened[GetWorksheet(reopened, name)], a)

(***************************************************************************)
(* Properties.                                                             *)
(***************************************************************************)
\* readDataWithClasscodes has returned an array (to a caller or a driver)
DataLoaded ==
    prog # "file" /\ pc # "start" /\ dataFile.exists /\ dataFile.kind = "array"

\* C1: the record at index idx (0-based) of the loaded array has classcode
\* 18 + floor(idx / 20); hence the classcode never decreases along the array,
\* is the same inside each block of 20 consecutive indices, and grows by one
\* from a block to the next.
ClasscodeByBlock ==
    /\ DataLoaded => Len(data) = Len(dataFile.arr)
    /\ \A j \in 1..Len(data) :
         /\ data[j].f["classcode"] = Num(18 + ((j - 1) \div 20))
         /\ j < Len(data) => data[j].f["classcode"].n <= data[j + 1].f["classcode"].n
         /\ \A m \in j..Min(j + 19, Len(data)) :
              ((j - 1) \div 20 = (m - 1) \div 20)
                 => data[j].f["classcode"] = data[m].f["classcode"]
         /\ j + 20 <= Len(data) => data[j + 20].f["classcode"].n = data[j].f["classcode"].n + 1
ClasscodeWitness ==
    prog = "api_read" /\ pc = "returned" /\ Len(data) > 40

\* C2 as stated: the output has the input's length and order, and every field
\* an input record carries, a field named classcode included, has the same
\* value in the output record.
EveryInputFieldKept ==
    DataLoaded =>
        /\ Len(data) = Len(dataFile.arr)
        /\ \A j \in 1..Len(data) : \A x \in Fields :
             dataFile.arr[j].f[x] # Undefined => data[j].f[x] = dataFile.arr[j].f[x]
\* C2, amended: the output has the input's length and order, and every field
\* other than classcode has the same value (or absence) in the output record
\* as in the input record; classcode is set from the position, replacing a
\* classcode the input record carried.
OtherFieldsKept ==
    DataLoaded =>
        /\ Len(data) = Len(dataFile.arr)
        /\ \A j \in 1..Len(data) :
             /\ data[j].kind = "object"
             /\ \A x \in Fields \ {"classcode"} : data[j].f[x] = dataFile.arr[j].f[x]
             /\ data[j].f["classcode"] = Num(18 + ((j - 1) \div 20))
OwnClasscodeReplaced ==
    /\ DataLoaded
    /\ \E j \in 1..Len(data) :
         /\ dataFile.arr[j].f["classcode"] = Num(99)
         /\ data[j].f["classcode"] = Num(18)
         /\ data[j].f["name"] = Str("B")

\* C3: a missing data file makes readDataWithClasscodes fail with NotFound
\* (the file is not parsed), a file that parses to a value that is not an
\* array makes it fail with ShapeError, and in both cases nothing is returned.
LoadFailures ==
    (pc # "start" /\ prog \in {"api_read", "cli_all", "cli_fill"}) =>
        /\ ~dataFile.exists => err = "NotFound" /\ data = <<>> /\ pc \in {"raised", "exited"}
        /\ (dataFile.exists /\ dataFile.kind = "object")
             => err = "ShapeError" /\ data = <<>> /\ pc \in {"raised", "exited"}
ShapeErrorRaised ==
    prog = "api_read" /\ pc = "raised" /\ err = "ShapeError" /\ dataFile.kind = "object"

\* the name the claims give the clone of the record at index k
CloneName(k) == "STT-" \o ToString(k)
\* the clones whose value overwrite is done
FilledClones ==
    IF prog \in {"cli_all", "api_copies"}
    THEN {k \in 0..(Len(dataArray) - 1) : k < i \/ (k = i /\ pc = "merge2")}
    ELSE {}
CloneSheet(k) == workbook[GetWorksheet(workbook, CloneName(k))]
PresentIds == {id \in 1..Len(workbook) : workbook[id].origin # "none"}

\* C4: when the cloner has processed its N records the workbook holds, for
\* every k in 0..N-1, exactly one worksheet named STT-k, and it is the clone
\* made in this run; a worksheet of that name in the template was replaced.
\* The names in the workbook are the template's names and STT-0..STT-(N-1),
\* whether or not the template already held some of them, and no two
\* worksheets share a name.
OneCloneSheetPerRecord ==
    (prog \in {"cli_all", "api_copies"} /\ pc \in {"loop", "returned", "exited"} /\ formId # 0) =>
        /\ \A k \in 0..(i - 1) :
             /\ Cardinality({id \in PresentIds : workbook[id].name = CloneName(k)}) = 1
             /\ \A id \in PresentIds : workbook[id].name = CloneName(k) => workbook[id].origin = "clone"
        /\ {workbook[id].name : id \in PresentIds}
             = {templateFile.book[id].name : id \in 1..Len(templateFile.book)}
               \cup {CloneName(k) : k \in 0..(i - 1)}
        /\ \A x, y \in PresentIds : workbook[x].name = workbook[y].name => x = y
        /\ pc = "returned" => i = Len(dataArray)
ClonesReplacedOld ==
    /\ prog = "api_copies" /\ pc = "returned" /\ i = 2
    /\ Len(templateFile.book) = 3
    /\ Cardinality(PresentIds) = 3

\* what the claims expect in the six cells of a clone, in the order the
\* cells are written
OrEmpty(v) == IF v \in {Undefined, Null} THEN Str("") ELSE v
ExpectedInClone(item) ==
    << <<<<3, 6>>, OrEmpty(item.f["name"])>>,
       <<<<3, 7>>, IF item.f["year"] \in {Undefined, Null} THEN OrEmpty(item.f["name2"])
                   ELSE item.f["year"]>>,
       <<<<3, 8>>, OrEmpty(item.f["school"])>>,
       <<<<3, 9>>, OrEmpty(item.f["address"])>>,
       <<<<3, 10>>, OrEmpty(item.f["address2"])>>,
       <<<<6, 6>>, Str("Ma lop: 18")>> >>
\* the masters of the cells of the expected assignments on a sheet
MastersOf(sheet, expected) == [p \in 1..Len(expected) |-> MasterOf(sheet, expected[p][1])]
\* the last of the assignments that shares the merged range of the p-th one,
\* m being their masters
LastSharing(m, p) ==
    CHOOSE q \in 1..Len(m) : m[q] = m[p] /\ \A r \in (q + 1)..Len(m) : m[r] # m[p]

\* C5 as stated: in every clone whose values are written, C6 reads the
\* record's name, C7 its year (its name2 when it has no year), C8 its school,
\* C9 its address, C10 its address2, each "" when null or absent, and F6 reads
\* the constant label.
CloneCellsHoldRecord ==
    \A k \in FilledClones :
        LET expected == ExpectedInClone(dataArray[k + 1])
        IN \A p \in 1..Len(expected) : CellValue(CloneSheet(k), expected[p][1]) = expected[p][2]
\* C5, amended: each of the six cells reads the value listed for it, unless a
\* cell written later (order C6, C7, C8, C9, C10, F6) lies in the same merged
\* range: cells of one merged range all read the value of the last of them
\* written.  F6, written last, always reads the constant label.
CloneCellsHoldLastWrite ==
    \A k \in FilledClones :
        LET expected == ExpectedInClone(dataArray[k + 1])
            sheet == CloneSheet(k)
            m == MastersOf(sheet, expected)
        IN /\ \A p \in 1..6 :
                CellValue(sheet, expected[p][1]) = expected[LastSharing(m, p)][2]
           /\ CellValue(sheet, <<6, 6>>) = Str("Ma lop: 18")
           /\ \A p \in 1..6 :
                (\A q \in (p + 1)..6 : m[q] # m[p])
                => CellValue(sheet, expected[p][1]) = expected[p][2]
CloneSharedRangeFilled ==
    /\ prog = "api_copies" /\ pc = "returned" /\ i = 2
    /\ dataArray[1] = ItemA /\ dataArray[2] = ItemB
    /\ MasterOf(CloneSheet(0), <<3, 7>>) = <<3, 6>>
    /\ CellValue(CloneSheet(0), <<3, 6>>) = Num(2005)
    /\ CellValue(CloneSheet(1), <<3, 6>>) = Str("M")
    /\ CellValue(CloneSheet(1), <<3, 8>>) = Str("")

\* C6: no value is assigned to a cell that is a non-master member of a merged
\* range.  The cloner copies a source cell only when it is its own master (and
\* the copy lands on the cell of the same address), and an assignment to a
\* fixed address by the filler or the cloner replaces the stored value of the
\* master of the range that holds the address, of the cell itself when it is
\* not merged.
OnlyMastersWritten ==
    \A w \in writeLog :
        /\ MasterOf(workbook[w.id], w.at) = w.at
        /\ w.kind = "copy" => MasterOf(workbook[formId], w.req) = w.req /\ w.at = w.req
        /\ w.kind = "set" => w.at = MasterOf(workbook[w.id], w.req)
MemberCellRedirected ==
    /\ pc = "returned"
    /\ \E w \in writeLog : w.kind = "set" /\ w.at # w.req /\ w.req = <<3, 6>>
    /\ \E w \in writeLog : w.kind = "copy"

\* the clones whose merge ranges were applied at least once
MergedClones ==
    IF prog \in {"cli_all", "api_copies"}
    THEN {k \in 0..(Len(dataArray) - 1) : k < i \/ (k = i /\ pc \in {"fill", "merge2"})}
    ELSE {}

\* C7: every clone ends with every merged range of the source sheet (which
\* are all well formed); an application that fails is skipped without raising
\* and the other ranges and records are still processed; the second
\* application, after the value overwrite, leaves the clone's merged ranges
\* as the first application left them.
ClonesKeepMerges ==
    /\ \A k \in MergedClones :
         {CloneSheet(k).merges[j] : j \in 1..Len(CloneSheet(k).merges)}
           = {workbook[formId].merges[j] : j \in 1..Len(workbook[formId].merges)}
    /\ (prog \in {"cli_all", "api_copies"} /\ i > 0 /\ pc \in {"loop", "returned"})
         => /\ workbook[cur].merges = afterFirst
            /\ err = "none"
    /\ (prog \in {"cli_all", "api_copies"} /\ pc = "returned") => i = Len(dataArray)
ClonesMerged ==
    /\ prog = "api_copies" /\ pc = "loop" /\ i = 2
    /\ Len(workbook[formId].merges) >= 2
    /\ Len(workbook[cur].merges) >= 2

\* what the claims expect in the six cells of the filled "data" sheet, in the
\* order the cells are written
ExpectedInData(e) ==
    << <<<<3, 1>>, OrEmpty(e.f["name"])>>,
       <<<<3, 2>>, OrEmpty(e.f["year"])>>,
       <<<<3, 3>>, OrEmpty(e.f["school"])>>,
       <<<<3, 4>>, OrEmpty(e.f["address"])>>,
       <<<<3, 5>>, OrEmpty(e.f["address2"])>>,
       <<<<3, 6>>, OrEmpty(e.f["classcode"])>> >>
FillerWrote == prog \in {"cli_fill", "api_fill", "api_fill2"} /\ outFile.count > 0

\* C8 as stated: in the re-opened output of fillDataToTemplate the cells
\* C1..C6 of sheet "data" read the record's name, year, school, address,
\* address2 and classcode, a null or absent field reading as "".
RoundTripReadsRecord ==
    FillerWrote =>
        \A p \in 1..6 :
            ReadBack(outFile.book, "data", ExpectedInData(entry)[p][1]) = ExpectedInData(entry)[p][2]
\* C8, amended: for a record whose six fields are absent, null, numbers or
\* plain strings, each of C1..C6 reads back the field listed for it ("" for a
\* null or absent one) unless a cell written later (order C1..C6) lies in the
\* same merged range of the template: cells of one merged range all read back
\* the value of the last of them written.
RoundTripReadsLastWrite ==
    FillerWrote =>
        LET expected == ExpectedInData(entry)
            m == MastersOf(templateFile.book[GetWorksheet(templateFile.book, "data")], expected)
        IN /\ \A p \in 1..6 :
                ReadBack(outFile.book, "data", expected[p][1]) = expected[LastSharing(m, p)][2]
           /\ \A p \in 1..6 :
                (\A q \in (p + 1)..6 : m[q] # m[p])
                => ReadBack(outFile.book, "data", expected[p][1]) = expected[p][2]
RoundTripSharedRange ==
    /\ FillerWrote /\ prog = "api_fill"
    /\ entry.f["name"] = Str("B") /\ entry.f["year"] = Null /\ entry.f["classcode"] = Num(99)
    /\ ReadBack(outFile.book, "data", <<3, 1>>) = Str("")
    /\ ReadBack(outFile.book, "data", <<3, 6>>) = Num(99)

\* C9: a driver exits with status 1 when the data file is missing, when the
\* loaded record set is empty and when a step raises, and then nothing is
\* reported as saved; it exits with status 0 only after the writer returned
\* the output path (the file was written once, nothing was raised).  The file
\* as it stands, which fails to compile, ends with status 1 and reports and
\* writes nothing.
DriverExitStatus ==
    /\ prog \in {"cli_all", "cli_fill"} =>
        /\ (~dataFile.exists /\ pc # "start") => pc = "exited" /\ exitCode = 1
        /\ (dataFile.exists /\ dataFile.kind = "array" /\ Len(dataFile.arr) = 0
              /\ pc \notin {"start", "loaded"}) => pc = "exited" /\ exitCode = 1
        /\ err # "none" => pc = "exited" /\ exitCode = 1
        /\ exitCode = 1 => ~saved
        /\ pc = "exited" => exitCode \in {0, 1}
        /\ pc # "exited" => exitCode = -1 /\ ~saved
        /\ exitCode = 0 => saved /\ outFile.count = 1 /\ err = "none" /\ Len(data) > 0
        /\ saved => exitCode = 0
    /\ prog = "file" =>
        /\ ~saved /\ outFile.count = 0
        /\ pc = "exited" => exitCode = 1 /\ err = "SyntaxError"
        /\ pc # "exited" => exitCode = -1
DriverRefusedEmpty ==
    /\ prog = "cli_all" /\ pc = "exited" /\ exitCode = 1 /\ err = "none"
    /\ dataFile.kind = "array" /\ Len(dataFile.arr) = 0

\* the writer (createCopiesFromTemplateAll or fillDataToTemplate) was called
\* and is past its checks of the template
WriterPastOpen ==
    /\ pc \notin {"start", "loaded", "open"}
    /\ prog \in {"api_copies", "api_fill", "api_fill2"}
         \/ (prog \in {"cli_all", "cli_fill"} /\ Len(data) > 0)

\* the worksheets a run has cloned or filled
TouchedSheets ==
    {id \in 1..Len(workbook) : workbook[id].origin = "clone"} \cup {w.id : w \in writeLog}

\* C10: the output workbook is written at most once, after every record has
\* been processed (nothing is cloned or filled after it), and the workbook in
\* memory is not changed after the write; when the template file is missing
\* or the source worksheet is absent the run raises NotFound / MissingSheet
\* with no sheet cloned or filled and no output written.
WrittenOnceAtEnd ==
    /\ [](/\ outFile.count <= 1
          /\ outFile.count = 1 =>
               /\ pc \in {"returned", "exited"}
               /\ outFile.book = workbook
               /\ prog \in {"cli_all", "api_copies"} =>
                    /\ i = Len(dataArray)
                    /\ \A k \in 0..(Len(dataArray) - 1) :
                         \E id \in 1..Len(workbook) :
                            workbook[id].origin = "clone" /\ workbook[id].name = CloneName(k)
          /\ (~templateFile.exists /\ WriterPastOpen)
               => err = "NotFound" /\ pc \in {"raised", "exited"}
          /\ (templateFile.exists /\ workbook # <<>>
                /\ \A id \in 1..Len(templateFile.book) :
                     templateFile.book[id].name # SourceSheetName)
               => err = "MissingSheet" /\ pc \in {"raised", "exited"}
          /\ err \in {"NotFound", "MissingSheet"} => outFile.count = 0 /\ TouchedSheets = {})
    /\ [][outFile.count = 1 => workbook' = workbook /\ outFile' = outFile]_vars
WrittenAfterTwoClones ==
    /\ prog = "api_copies" /\ outFile.count = 1 /\ i = 2 /\ pc = "returned"

====
